---- MODULE Spec2Model ----
(***************************************************************************)
(* State-machine model of the NVS-backed file layer of zephyr-softsim      *)
(* (fs_zephyr.c): the path-to-identifier hash, the lazily mounted store,   *)
(* the fixed pool of file handles and the stdio-like operations on them.   *)
(*                                                                         *)
(* The key-value flash store (Zephyr NVS) is an external collaborator; it  *)
(* is modelled by the interface the file layer consumes: a map from        *)
(* identifier to a non-empty byte string, with reliable reads and with     *)
(* mount, write and delete calls that the environment may fail.            *)
(***************************************************************************)
EXTENDS Integers, Sequences, FiniteSets, TLC

(* ------------------------------------------------------------------ *)
(* Configuration and bounds                                            *)
(* ------------------------------------------------------------------ *)

\* Kconfig options of the file layer, instantiated with small values.
CONFIG_SOFTSIM_MAX_FILE_SIZE == 3

CONFIG_SOFTSIM_MAX_OPEN_FILES == 2

NVS_ID_BASE == 4096

NVS_ID_MAX == 8191

\* Number of API calls in one explored session; a monitored call sequence
\* (see ScenNext) that is under way when they are used up may still be finished.
MaxSteps == 3

\* Width in bits of size_t and long in the model (the target has 32).
WordBits == 4

WordMod == 2 ^ WordBits

LONG_MAX == (WordMod \div 2) - 1

ERASE == 255

Bytes == {0, ERASE}

ENOENT == 2

ENODEV == 19

\* The errno of a store call that fails for another reason than "absent".
EIO == 5

SEEK_SET == 0

SEEK_CUR == 1

SEEK_END == 2

(* ------------------------------------------------------------------ *)
(* Values                                                              *)
(* ------------------------------------------------------------------ *)

\* A path is the sequence of its bytes; NULL_PATH stands for a null pointer.
NULL_PATH == <<-1>>

\* The size of the path field of a handle, scaled down: a path of this many
\* bytes or more does not fit the field with its terminator.
SS_STORAGE_PATH_MAX == 2

\* "aa" and "b@" hash to the same identifier; "c" to another one. "c" fits
\* the path field, the other two are too long for it.
Paths == {<<97, 97>>, <<98, 64>>, <<99>>}

\* A mode is the sequence of its characters; NULL_MODE stands for a null pointer.
NULL_MODE == <<"NULL">>

Modes == {<<"r">>, <<"r", "b">>, <<"w">>, <<"r", "+">>, <<"w", "+">>, <<"a">>}

\* strchr(mode, c) != NULL
strchr(mode, c) == \E i \in DOMAIN mode : mode[i] = c

\* A handle is the index of its slot in file_handles; NULL_HANDLE is a null pointer.
NULL_HANDLE == -1

Slots == 0 .. (CONFIG_SOFTSIM_MAX_OPEN_FILES - 1)

\* A freed or never allocated buffer pointer.
NULL_BUF == <<>>

\* The absence of an entry in the store.
NoEntry == <<>>

Min(a, b) == IF a < b THEN a ELSE b

Max(a, b) == IF a > b THEN a ELSE b

\* All byte strings of length n.
BSeq(n) == [1 .. n -> Bytes]

(* ------------------------------------------------------------------ *)
(* Path-to-identifier hash                                             *)
(* ------------------------------------------------------------------ *)

\* One round of the hash on a uint32_t kept as two 16-bit halves:
\* hash = ((hash << 5) + hash) + byte, modulo 2^32.
HashStep(h, b) ==
    LET t == (h.lo * 33) + b
    IN  [lo |-> t % 65536, hi |-> ((h.hi * 33) + (t \div 65536)) % 65536]

RECURSIVE HashFrom(_, _, _)
HashFrom(h, path, i) ==
    IF i > Len(path) THEN h ELSE HashFrom(HashStep(h, path[i]), path, i + 1)

\* hash % m for the two-halves representation.
HashMod(h, m) == (((h.hi % m) * (65536 % m)) + h.lo) % m

\* Mutant: the hash is reduced modulo the size of the reserved range.
path_to_nvs_id_range(path) ==
    LET hash == HashFrom([hi |-> 5381 \div 65536, lo |-> 5381 % 65536], path, 1)
    IN  NVS_ID_BASE + HashMod(hash, (NVS_ID_MAX - NVS_ID_BASE) + 1)

path_to_nvs_id(path) ==
    LET hash == HashFrom([hi |-> 5381 \div 65536, lo |-> 5381 % 65536], path, 1)
    IN  NVS_ID_BASE + HashMod(hash, NVS_ID_MAX - NVS_ID_BASE)

NvsIds == {path_to_nvs_id(p) : p \in Paths}

(* ------------------------------------------------------------------ *)
(* State                                                               *)
(* ------------------------------------------------------------------ *)

VARIABLES
    nvs_initialized,  \* the mounted flag
    store,            \* the NVS entries: identifier -> bytes, or NoEntry
    file_handles,     \* the handle pool
    last,             \* the last API call: its arguments, environment and result
    scen,             \* progress of the open-write-close-reopen scenarios
    steps             \* number of API calls made

vars == <<nvs_initialized, store, file_handles, last, scen, steps>>

\* struct ss_file_handle (the path field, read only by log statements, is left out).
ZeroHandle ==
    [nvs_id |-> 0, buffer |-> NULL_BUF, size |-> 0, capacity |-> 0,
     position |-> 0, modified |-> FALSE, is_open |-> FALSE]

\* The file provisioned under an identifier before the session starts: one
\* that fills the buffer under the smallest identifier, a one-byte file under
\* the others.
ProvisionedFile(id) ==
    IF \A other \in NvsIds : id <= other
    THEN [i \in 1 .. CONFIG_SOFTSIM_MAX_FILE_SIZE |-> 0]
    ELSE <<0>>

\* The stores a session starts with: every identifier has its provisioned
\* file or no entry.
ProvisionedStores ==
    {st \in [NvsIds -> UNION {{NoEntry, ProvisionedFile(id)} : id \in NvsIds}] :
        \A id \in NvsIds : st[id] \in {NoEntry, ProvisionedFile(id)}}

NoCall ==
    [op |-> "none", path |-> NULL_PATH, mode |-> NULL_MODE, h |-> NULL_HANDLE,
     isize |-> 0, icount |-> 0, off |-> 0, whence |-> 0, data |-> <<>>,
     ptr |-> FALSE, ret |-> 0, mnt |-> 0, mount |-> "none", alloc |-> "none",
     nvs |-> 0, fault |-> "none"]

NoScen == [stage |-> "idle", path |-> NULL_PATH, h |-> NULL_HANDLE, B |-> <<>>]

Init ==
    /\ nvs_initialized = FALSE
    /\ store \in ProvisionedStores
    /\ file_handles = [i \in Slots |-> ZeroHandle]
    /\ last = NoCall
    /\ scen = NoScen
    /\ steps = 0

(* ------------------------------------------------------------------ *)
(* The key-value store as the file layer consumes it                   *)
(* ------------------------------------------------------------------ *)

\* nvs_read: the stored length, or -ENOENT when the identifier has no entry.
nvs_read(id) == IF store[id] = NoEntry THEN -ENOENT ELSE Len(store[id])

\* The destination after nvs_read copied at most max_len stored bytes into it.
nvs_read_into(dest, id, max_len) ==
    [i \in DOMAIN dest |->
        IF i <= Min(max_len, Len(store[id])) THEN store[id][i] ELSE dest[i]]

\* nvs_write: wr is the environment's outcome, "ok" or "error".
nvs_write_status(wr, len) == IF wr = "ok" THEN len ELSE -EIO

nvs_write_store(id, data, wr) ==
    IF wr = "ok" THEN [store EXCEPT ![id] = data] ELSE store

\* nvs_delete: del is the environment's outcome: "ok", "absent" (the store
\* reports -ENOENT for a missing entry; it may also report 0) or "error".
nvs_delete_status(id, del) ==
    IF del = "ok" THEN 0 ELSE IF del = "absent" THEN -ENOENT ELSE -EIO

nvs_delete_store(id, del) ==
    IF del = "ok" THEN [store EXCEPT ![id] = NoEntry] ELSE store

\* The outcomes the store can produce for a delete of id.
DeleteOutcomes(id) ==
    (IF store[id] = NoEntry THEN {"ok", "absent"} ELSE {"ok"}) \cup {"error"}

WriteOutcomes == {"ok", "error"}

\* The flash device and nvs_mount as the environment decides them.
MountOutcomes == {"ok", "not_ready", "mount_error"}

(* ------------------------------------------------------------------ *)
(* Helpers of the file layer                                           *)
(* ------------------------------------------------------------------ *)

\* Mutant: the mounted flag is not consulted before mounting.
mount_attempt_always(dev) ==
    IF dev = "not_ready" THEN "not_ready"
    ELSE IF dev = "mount_error" THEN "failed"
    ELSE "ok"

\* What ensure_nvs_init does about the mount when the environment answers
\* dev: "none" when the flag is set and nothing is called, "not_ready" when
\* the device check fails before nvs_mount, else the outcome of nvs_mount.
mount_attempt(dev) ==
    IF nvs_initialized THEN "none"
    ELSE IF dev = "not_ready" THEN "not_ready"
    ELSE IF dev = "mount_error" THEN "failed"
    ELSE "ok"

\* Mutant: a failed nvs_mount is not reported to the caller.
ensure_nvs_init_lenient(dev) ==
    IF nvs_initialized THEN 0
    ELSE IF dev = "not_ready" THEN -ENODEV
    ELSE 0

\* The status ensure_nvs_init returns when the environment answers dev.
ensure_nvs_init(dev) ==
    IF nvs_initialized THEN 0
    ELSE IF dev = "not_ready" THEN -ENODEV
    ELSE IF dev = "mount_error" THEN -EIO
    ELSE 0

\* Mutant: the scan stops one slot early.
get_free_handle_short ==
    IF \E i \in Slots : i < CONFIG_SOFTSIM_MAX_OPEN_FILES - 1 /\ ~file_handles[i].is_open
    THEN CHOOSE i \in Slots :
            /\ i < CONFIG_SOFTSIM_MAX_OPEN_FILES - 1
            /\ ~file_handles[i].is_open
            /\ \A j \in Slots : j < i => file_handles[j].is_open
    ELSE NULL_HANDLE

\* The first slot that is not open, or NULL_HANDLE.
get_free_handle ==
    IF \E i \in Slots : ~file_handles[i].is_open
    THEN CHOOSE i \in Slots :
            /\ ~file_handles[i].is_open
            /\ \A j \in Slots : j < i => file_handles[j].is_open
    ELSE NULL_HANDLE

\* Whether the mode asks to load the stored content.
mode_loads(mode) == strchr(mode, "r") \/ strchr(mode, "+")

\* Whether the mode is read-only: 'r' without '+' and without 'w'.
mode_strict_read(mode) ==
    strchr(mode, "r") /\ ~strchr(mode, "+") /\ ~strchr(mode, "w")

\* Whether the mode truncates.
mode_truncates(mode) == strchr(mode, "w")

\* The buffer malloc returned, after memset(buffer, 0xFF, size).
erased_buffer == [i \in 1 .. CONFIG_SOFTSIM_MAX_FILE_SIZE |-> ERASE]

\* The slot after memset(handle, 0) and the assignments up to the allocation.
claimed_handle(path) ==
    [ZeroHandle EXCEPT !.nvs_id = path_to_nvs_id(path), !.is_open = TRUE]

\* Mutant: the load leaves the logical size at 0.
loaded_handle_unsized(path, mode) ==
    LET h0 == [claimed_handle(path) EXCEPT
                  !.buffer = erased_buffer,
                  !.capacity = CONFIG_SOFTSIM_MAX_FILE_SIZE]
    IN  IF mode_loads(mode) /\ nvs_read(h0.nvs_id) > 0
        THEN [h0 EXCEPT
                 !.buffer = nvs_read_into(h0.buffer, h0.nvs_id,
                                          CONFIG_SOFTSIM_MAX_FILE_SIZE)]
        ELSE h0

\* The handle after the allocation and the load of the stored content.
loaded_handle(path, mode) ==
    LET h0 == [claimed_handle(path) EXCEPT
                  !.buffer = erased_buffer,
                  !.capacity = CONFIG_SOFTSIM_MAX_FILE_SIZE]
        len == nvs_read(h0.nvs_id)
    IN  IF mode_loads(mode) /\ len > 0
        THEN [h0 EXCEPT
                 !.buffer = nvs_read_into(h0.buffer, h0.nvs_id,
                                          CONFIG_SOFTSIM_MAX_FILE_SIZE),
                 !.size = len]
        ELSE h0

\* Whether the open fails because a read-only mode found nothing to load.
open_not_found(path, mode) ==
    /\ mode_loads(mode)
    /\ nvs_read(path_to_nvs_id(path)) <= 0
    /\ mode_strict_read(mode)

\* The handle a successful open returns: truncated when the mode says so.
opened_handle(path, mode) ==
    LET h1 == loaded_handle(path, mode)
    IN  IF mode_truncates(mode)
        THEN [h1 EXCEPT !.size = 0, !.modified = TRUE]
        ELSE h1

\* The slot an open leaves behind when malloc fails: closed, no buffer.
unallocated_handle(path) ==
    [claimed_handle(path) EXCEPT !.is_open = FALSE]

\* Mutant: the failing read-only open frees the buffer but keeps the slot.
released_handle_kept(path, mode) ==
    [loaded_handle(path, mode) EXCEPT !.size = 0, !.buffer = NULL_BUF]

\* The slot an open leaves behind when a read-only mode finds nothing:
\* buffer freed, slot closed.
released_handle(path, mode) ==
    [loaded_handle(path, mode) EXCEPT
        !.size = 0, !.buffer = NULL_BUF, !.is_open = FALSE]

valid_handle(h) == h \in Slots /\ file_handles[h].is_open

(* ------------------------------------------------------------------ *)
(* Scenario monitor                                                    *)
(* ------------------------------------------------------------------ *)

\* Follows three call sequences made back to back on one path:
\*   open(P,"w"), write(B), close, open(P,"r"), read(len(B))
\*   open(P,"w") on a stored file, close, size(P)
\*   delete(P), delete(P)
\* and falls back to idle as soon as another call comes in between. It also
\* follows a call that failed on the mount and the call that comes after it.
ScenStart(call) ==
    IF call.mnt # 0
    THEN [NoScen EXCEPT !.stage = "mount_failed"]
    ELSE IF call.op = "fopen" /\ call.mode = <<"w">> /\ call.ret # NULL_HANDLE
    THEN [stage |-> "opened_w", path |-> call.path, h |-> call.ret, B |-> <<>>]
    ELSE IF call.op = "delete_file" /\ call.ret = 0
    THEN [stage |-> "deleted", path |-> call.path, h |-> NULL_HANDLE, B |-> <<>>]
    ELSE NoScen

\* The operations that need the store mounted.
StoreOps == {"fopen", "file_size", "access", "delete_file"}

ScenNext(call) ==
    IF /\ scen.stage = "opened_w"
       /\ call.op = "fwrite" /\ call.h = scen.h /\ call.ptr
       /\ call.isize * call.icount = Len(call.data)
       /\ Len(call.data) >= 1
       /\ call.ret = call.icount
       /\ call.fault = "none"
    THEN [scen EXCEPT !.stage = "written", !.B = call.data]
    ELSE IF /\ scen.stage = "opened_w"
            /\ call.op = "fclose" /\ call.h = scen.h
            /\ store[path_to_nvs_id(scen.path)] # NoEntry
    THEN [scen EXCEPT !.stage = "trunc_closed"]
    ELSE IF /\ scen.stage = "trunc_closed"
            /\ call.op = "file_size" /\ call.path = scen.path
    THEN [scen EXCEPT !.stage = "trunc_sized"]
    ELSE IF /\ scen.stage = "written"
            /\ call.op = "fclose" /\ call.h = scen.h /\ call.nvs >= 0
    THEN [scen EXCEPT !.stage = "flushed"]
    ELSE IF /\ scen.stage = "flushed"
            /\ call.op = "fopen" /\ call.path = scen.path
            /\ call.mode = <<"r">> /\ call.alloc # "failed"
    THEN [scen EXCEPT !.stage = "reopened", !.h = call.ret]
    ELSE IF /\ scen.stage = "reopened" /\ scen.h # NULL_HANDLE
            /\ call.op = "fread" /\ call.h = scen.h /\ call.ptr
            /\ call.isize = 1 /\ call.icount = Len(scen.B)
    THEN [scen EXCEPT !.stage = "read_back"]
    ELSE IF /\ scen.stage = "deleted"
            /\ call.op = "delete_file" /\ call.path = scen.path
    THEN [scen EXCEPT !.stage = "deleted_twice"]
    ELSE IF /\ scen.stage = "mount_failed"
            /\ call.op \in StoreOps
            /\ call.path # NULL_PATH
            /\ call.op = "fopen" => call.mode # NULL_MODE
    THEN [scen EXCEPT !.stage = "mount_retried"]
    ELSE ScenStart(call)

\* Whether the stage is one a monitored call sequence has advanced to.
Advanced(stage) == stage \notin {"idle", "opened_w", "deleted", "mount_failed"}

\* The calls that continue a monitored call sequence at its stage.
Continuing(stage) ==
    IF stage = "opened_w" THEN {"fwrite", "fclose"}
    ELSE IF stage = "written" THEN {"fclose"}
    ELSE IF stage = "trunc_closed" THEN {"file_size"}
    ELSE IF stage = "flushed" THEN {"fopen"}
    ELSE IF stage = "reopened" THEN {"fread"}
    ELSE IF stage = "deleted" THEN {"delete_file"}
    ELSE {}

\* A call of op is made when the previous call has returned to the caller,
\* while calls are left in the session or op continues a monitored sequence.
Running(op) ==
    /\ last.op = "none"
    /\ steps < MaxSteps \/ op \in Continuing(scen.stage)

\* Every call ends by recording itself. A call is made while calls are left
\* in the session, or when it continues a monitored call sequence.
Done(call) ==
    LET next == ScenNext(call)
    IN  /\ steps < MaxSteps \/ Advanced(next.stage)
        /\ last' = call
        /\ scen' = next
        /\ steps' = IF steps < MaxSteps THEN steps + 1 ELSE steps

(* ------------------------------------------------------------------ *)
(* Open and close                                                      *)
(* ------------------------------------------------------------------ *)

\* ss_fopen(path, mode); dev and mem are the environment's answers to the
\* mount and to malloc.
ss_fopen(path, mode, dev, mem) ==
    LET call == [NoCall EXCEPT !.op = "fopen", !.path = path, !.mode = mode,
                               !.mount = IF path = NULL_PATH \/ mode = NULL_MODE
                                         THEN "none" ELSE mount_attempt(dev)]
        err  == ensure_nvs_init(dev)
        slot == get_free_handle
    IN  /\ store' = store
        /\ IF path = NULL_PATH \/ mode = NULL_MODE
           THEN /\ UNCHANGED <<nvs_initialized, file_handles>>
                /\ Done([call EXCEPT !.ret = NULL_HANDLE])
           ELSE IF err # 0
           THEN /\ UNCHANGED <<nvs_initialized, file_handles>>
                /\ Done([call EXCEPT !.ret = NULL_HANDLE, !.mnt = err])
           ELSE /\ nvs_initialized' = TRUE
                /\ IF slot = NULL_HANDLE
                   THEN /\ UNCHANGED file_handles
                        /\ Done([call EXCEPT !.ret = NULL_HANDLE])
                   ELSE IF ~mem
                   THEN /\ file_handles' =
                              [file_handles EXCEPT ![slot] = unallocated_handle(path)]
                        /\ Done([call EXCEPT !.ret = NULL_HANDLE, !.alloc = "failed"])
                   ELSE IF open_not_found(path, mode)
                   THEN /\ file_handles' =
                              [file_handles EXCEPT ![slot] = released_handle(path, mode)]
                        /\ Done([call EXCEPT !.ret = NULL_HANDLE, !.alloc = "ok"])
                   ELSE /\ file_handles' =
                              [file_handles EXCEPT ![slot] = opened_handle(path, mode)]
                        /\ Done([call EXCEPT !.ret = slot, !.alloc = "ok"])

\* Mutant: close does not overwrite an entry the store already has.
flush_needed_absent(hd) ==
    hd.modified /\ hd.size > 0 /\ store[hd.nvs_id] = NoEntry

\* Whether close writes the buffer back.
flush_needed(hd) == hd.modified /\ hd.size > 0

\* Mutant: the flush loses the last byte.
flush_bytes_short(hd) == SubSeq(hd.buffer, 1, hd.size - 1)

\* Mutant: the flush writes the whole buffer.
flush_bytes_full(hd) == hd.buffer

\* The bytes close hands to nvs_write.
flush_bytes(hd) == SubSeq(hd.buffer, 1, hd.size)

\* Mutant: close reports a failed flush.
close_status_flush(err) == IF err < 0 THEN -1 ELSE 0

\* The status close returns for the status of the flush.
close_status(err) == 0

\* The slot after close: buffer freed, slot free.
closed_handle(hd) == [hd EXCEPT !.buffer = NULL_BUF, !.is_open = FALSE]

\* ss_fclose(f); wr is the environment's answer to nvs_write.
ss_fclose(h, wr) ==
    LET call == [NoCall EXCEPT !.op = "fclose", !.h = h]
    IN  /\ UNCHANGED nvs_initialized
        /\ IF ~valid_handle(h)
           THEN /\ UNCHANGED <<store, file_handles>>
                /\ Done([call EXCEPT !.ret = -1])
           ELSE LET hd == file_handles[h]
                IN  /\ store' = IF flush_needed(hd)
                                THEN nvs_write_store(hd.nvs_id, flush_bytes(hd), wr)
                                ELSE store
                    /\ file_handles' = [file_handles EXCEPT ![h] = closed_handle(hd)]
                    /\ Done([call EXCEPT
                               !.ret = close_status(IF flush_needed(hd)
                                                    THEN nvs_write_status(wr, hd.size)
                                                    ELSE 0),
                               !.data = IF flush_needed(hd) THEN flush_bytes(hd) ELSE <<>>,
                               !.nvs = IF flush_needed(hd)
                                       THEN nvs_write_status(wr, hd.size) ELSE 0])

(* ------------------------------------------------------------------ *)
(* Read, write and seek                                                *)
(* ------------------------------------------------------------------ *)

\* size * nmemb as a size_t.
total_bytes(size, nmemb) == (size * nmemb) % WordMod

\* The bytes between the position and the logical size.
available(hd) == IF hd.position < hd.size THEN hd.size - hd.position ELSE 0

\* The number of bytes a read copies.
to_read(hd, size, nmemb) == Min(total_bytes(size, nmemb), available(hd))

\* ss_fread(ptr, size, nmemb, f); ptr tells whether the destination is
\* non-null, trap what the build does on the division by a zero size: trap,
\* or yield 0.
ss_fread(h, ptr, size, nmemb, trap) ==
    LET call == [NoCall EXCEPT !.op = "fread", !.h = h, !.ptr = ptr,
                               !.isize = size, !.icount = nmemb]
    IN  /\ UNCHANGED <<nvs_initialized, store>>
        /\ IF ~valid_handle(h) \/ ~ptr
           THEN /\ ~trap
                /\ UNCHANGED file_handles
                /\ Done([call EXCEPT !.ret = 0])
           ELSE LET hd == file_handles[h]
                    n  == to_read(hd, size, nmemb)
                IN  \* memcpy copies n <= size - position bytes, none when the
                    \* position is at or past the logical size
                    /\ file_handles' =
                          [file_handles EXCEPT ![h].position = hd.position + n]
                    /\ IF size = 0
                       THEN \* to_read / size divides by zero
                            Done([call EXCEPT
                                    !.fault = IF trap THEN "division_by_zero"
                                              ELSE "none"])
                       ELSE /\ ~trap
                            /\ Done([call EXCEPT
                                      !.data = SubSeq(hd.buffer, hd.position + 1,
                                                      hd.position + n),
                                      !.ret = n \div size])

\* position + total_bytes as a size_t.
new_end(hd, total) == (hd.position + total) % WordMod

\* Mutant: the capacity check rejects a write that ends at the capacity.
write_fits_strict(hd, total) == new_end(hd, total) < hd.capacity

\* Whether the write passes the capacity check.
write_fits(hd, total) == new_end(hd, total) <= hd.capacity

\* The buffer after memcpy(buffer + position, ptr, Len(data)).
copy_in(buffer, position, data) ==
    [i \in DOMAIN buffer |->
        IF i > position /\ i <= position + Len(data)
        THEN data[i - position] ELSE buffer[i]]

\* Mutant: an accepted write does not extend the logical size.
written_handle_unsized(hd, data, total) ==
    [hd EXCEPT !.buffer = copy_in(hd.buffer, hd.position, data),
               !.position = new_end(hd, total),
               !.modified = TRUE]

\* The handle after an accepted write of total bytes, the first of them data.
written_handle(hd, data, total) ==
    LET pos == new_end(hd, total)
    IN  [hd EXCEPT !.buffer = copy_in(hd.buffer, hd.position, data),
                   !.position = pos,
                   !.size = IF pos > hd.size THEN pos ELSE hd.size,
                   !.modified = TRUE]

\* The requests (item size, item count) the callers make: byte counts up to
\* one past the capacity, a two-byte item, a zero item size, two products that
\* wrap around the word and a count that makes position + count wrap.
Requests ==
    {<<1, n>> : n \in 0 .. (CONFIG_SOFTSIM_MAX_FILE_SIZE + 1)}
        \cup {<<2, 1>>, <<0, 1>>}
        \cup {<<WordMod \div 2, 2>>, <<(WordMod \div 2) + 1, 2>>,
              <<WordMod - LONG_MAX, 1>>}

\* The number of source bytes that land inside the buffer.
bytes_in_buffer(hd, total) ==
    Max(0, Min(total, Len(hd.buffer) - hd.position))

\* ss_fwrite(ptr, size, count, f); data are the source bytes that are copied
\* into the buffer, ptr tells whether the source is non-null.
ss_fwrite(h, ptr, size, count, data) ==
    LET call  == [NoCall EXCEPT !.op = "fwrite", !.h = h, !.ptr = ptr,
                                !.isize = size, !.icount = count]
        total == total_bytes(size, count)
    IN  /\ UNCHANGED <<nvs_initialized, store>>
        /\ IF ~valid_handle(h) \/ ~ptr
           THEN /\ data = <<>>
                /\ UNCHANGED file_handles
                /\ Done([call EXCEPT !.ret = 0])
           ELSE LET hd == file_handles[h]
                IN  IF ~write_fits(hd, total)
                    THEN /\ data = <<>>
                         /\ UNCHANGED file_handles
                         /\ Done([call EXCEPT !.ret = 0])
                    ELSE /\ Len(data) = bytes_in_buffer(hd, total)
                         /\ file_handles' =
                               [file_handles EXCEPT ![h] = written_handle(hd, data, total)]
                         /\ Done([call EXCEPT
                                    !.data = data,
                                    !.ret = count,
                                    !.fault = IF hd.position + total > Len(hd.buffer)
                                              THEN "out_of_bounds" ELSE "none"])

\* The (offset, whence) pairs the callers seek with: every absolute position
\* from -1 to one past the capacity and the largest one, one byte back and
\* forth from the position and from the end, a relative seek that overflows
\* and a whence that is none of the three.
SeekRequests ==
    {<<o, SEEK_SET>> : o \in (-1 .. (CONFIG_SOFTSIM_MAX_FILE_SIZE + 1)) \cup {LONG_MAX}}
        \cup {<<o, w>> : o \in {-1, 1}, w \in {SEEK_CUR, SEEK_END}}
        \cup {<<LONG_MAX, SEEK_CUR>>, <<0, SEEK_END + 1>>}

\* The position a seek computes, before the sign check.
seek_target(hd, offset, whence) ==
    IF whence = SEEK_SET THEN offset
    ELSE IF whence = SEEK_CUR THEN hd.position + offset
    ELSE hd.size + offset

\* ss_fseek(f, offset, whence); trap tells what the build does on a signed
\* overflow of the addition: trap, or wrap to a negative value.
ss_fseek(h, offset, whence, trap) ==
    LET call == [NoCall EXCEPT !.op = "fseek", !.h = h, !.off = offset,
                               !.whence = whence]
    IN  /\ UNCHANGED <<nvs_initialized, store>>
        /\ IF ~valid_handle(h) \/ whence \notin {SEEK_SET, SEEK_CUR, SEEK_END}
           THEN /\ ~trap
                /\ UNCHANGED file_handles
                /\ Done([call EXCEPT !.ret = -1])
           ELSE LET new_pos == seek_target(file_handles[h], offset, whence)
                IN  IF new_pos > LONG_MAX
                    THEN /\ UNCHANGED file_handles
                         /\ Done([call EXCEPT
                                    !.ret = -1,
                                    !.fault = IF trap THEN "signed_overflow" ELSE "none"])
                    ELSE /\ ~trap
                         /\ IF new_pos < 0
                            THEN /\ UNCHANGED file_handles
                                 /\ Done([call EXCEPT !.ret = -1])
                            ELSE /\ file_handles' =
                                       [file_handles EXCEPT ![h].position = new_pos]
                                 /\ Done([call EXCEPT !.ret = 0])

(* ------------------------------------------------------------------ *)
(* Metadata operations                                                 *)
(* ------------------------------------------------------------------ *)

\* The value ss_file_size returns for the status of the length probe.
size_result(len) == IF len < 0 THEN -1 ELSE len

\* ss_file_size(path)
ss_file_size(path, dev) ==
    LET call == [NoCall EXCEPT !.op = "file_size", !.path = path,
                               !.mount = IF path = NULL_PATH
                                         THEN "none" ELSE mount_attempt(dev)]
        err  == ensure_nvs_init(dev)
    IN  /\ UNCHANGED <<store, file_handles>>
        /\ IF path = NULL_PATH
           THEN /\ UNCHANGED nvs_initialized
                /\ Done([call EXCEPT !.ret = -1])
           ELSE IF err # 0
           THEN /\ UNCHANGED nvs_initialized
                /\ Done([call EXCEPT !.ret = -1, !.mnt = err])
           ELSE LET len == nvs_read(path_to_nvs_id(path))
                IN  /\ nvs_initialized' = TRUE
                    /\ Done([call EXCEPT !.ret = size_result(len),
                                         !.nvs = len])

\* Mutant: a missing entry is reported as a failure.
delete_result_strict(err) == IF err # 0 THEN -1 ELSE 0

\* The status ss_delete_file returns for the store's status.
delete_result(err) == IF err # 0 /\ err # -ENOENT THEN -1 ELSE 0

\* ss_delete_file(path); del is the environment's answer to nvs_delete.
ss_delete_file(path, dev, del) ==
    LET call == [NoCall EXCEPT !.op = "delete_file", !.path = path,
                               !.mount = IF path = NULL_PATH
                                         THEN "none" ELSE mount_attempt(dev)]
        err  == ensure_nvs_init(dev)
    IN  /\ UNCHANGED file_handles
        /\ IF path = NULL_PATH
           THEN /\ UNCHANGED <<nvs_initialized, store>>
                /\ Done([call EXCEPT !.ret = -1])
           ELSE IF err # 0
           THEN /\ UNCHANGED <<nvs_initialized, store>>
                /\ Done([call EXCEPT !.ret = -1, !.mnt = err])
           ELSE LET id == path_to_nvs_id(path)
                IN  /\ del \in DeleteOutcomes(id)
                    /\ nvs_initialized' = TRUE
                    /\ store' = nvs_delete_store(id, del)
                    /\ Done([call EXCEPT
                               !.ret = delete_result(nvs_delete_status(id, del)),
                               !.nvs = nvs_delete_status(id, del)])

\* Mutant: an entry exists only when it holds more than the probed byte.
access_result_more(len) == IF len > 1 THEN 0 ELSE -1

\* The value ss_access returns for the status of the one-byte read.
access_result(len) == IF len >= 0 THEN 0 ELSE -1

\* ss_access(path, amode)
ss_access(path, dev) ==
    LET call == [NoCall EXCEPT !.op = "access", !.path = path,
                               !.mount = IF path = NULL_PATH
                                         THEN "none" ELSE mount_attempt(dev)]
        err  == ensure_nvs_init(dev)
    IN  /\ UNCHANGED <<store, file_handles>>
        /\ IF path = NULL_PATH
           THEN /\ UNCHANGED nvs_initialized
                /\ Done([call EXCEPT !.ret = -1])
           ELSE IF err # 0
           THEN /\ UNCHANGED nvs_initialized
                /\ Done([call EXCEPT !.ret = -1, !.mnt = err])
           ELSE LET len == nvs_read(path_to_nvs_id(path))
                IN  /\ nvs_initialized' = TRUE
                    /\ Done([call EXCEPT !.ret = access_result(len),
                                         !.nvs = len])

\* Mutant: create-dir rejects a null path.
ss_create_dir_checked(path) ==
    /\ UNCHANGED <<nvs_initialized, store, file_handles>>
    /\ Done([NoCall EXCEPT !.op = "create_dir", !.path = path,
                           !.ret = IF path = NULL_PATH THEN -1 ELSE 0])

\* ss_create_dir(path, mode)
ss_create_dir(path) ==
    /\ UNCHANGED <<nvs_initialized, store, file_handles>>
    /\ Done([NoCall EXCEPT !.op = "create_dir", !.path = path, !.ret = 0])

\* ss_delete_dir(path)
ss_delete_dir(path) ==
    /\ UNCHANGED <<nvs_initialized, store, file_handles>>
    /\ Done([NoCall EXCEPT !.op = "delete_dir", !.path = path, !.ret = 0])

(* ------------------------------------------------------------------ *)
(* The specification                                                   *)
(* ------------------------------------------------------------------ *)

PathArgs == Paths \cup {NULL_PATH}

\* The (path, mode) pairs the callers open with: every path in every mode,
\* a null path and a null mode.
OpenArgs ==
    (Paths \X Modes) \cup {<<NULL_PATH, <<"r">> >>, <<<<99>>, NULL_MODE>>}

\* Whether the caller passes a destination or source pointer: a null pointer
\* is passed with the one-byte request only.
PtrArgs(rq) == IF rq = <<1, 1>> THEN BOOLEAN ELSE {TRUE}

HandleArgs == Slots \cup {NULL_HANDLE}

\* The source bytes a write of the request copies into the buffer.
WriteData(h, ptr, rq) ==
    IF valid_handle(h) /\ ptr /\ write_fits(file_handles[h], total_bytes(rq[1], rq[2]))
    THEN BSeq(bytes_in_buffer(file_handles[h], total_bytes(rq[1], rq[2])))
    ELSE {<<>>}

\* The answers the environment can give to a mount attempt.
MountArgs == IF nvs_initialized THEN {"ok"} ELSE MountOutcomes

Open ==
    /\ Running("fopen")
    /\ \E pm \in OpenArgs, dev \in MountArgs, mem \in BOOLEAN :
        ss_fopen(pm[1], pm[2], dev, mem)

Close ==
    /\ Running("fclose")
    /\ \E h \in HandleArgs, wr \in WriteOutcomes : ss_fclose(h, wr)

Read ==
    /\ Running("fread")
    /\ \E h \in HandleArgs, rq \in Requests :
        \E ptr \in PtrArgs(rq), trap \in BOOLEAN :
            ss_fread(h, ptr, rq[1], rq[2], trap)

Write ==
    /\ Running("fwrite")
    /\ \E h \in HandleArgs, rq \in Requests :
        \E ptr \in PtrArgs(rq) :
            \E data \in WriteData(h, ptr, rq) : ss_fwrite(h, ptr, rq[1], rq[2], data)

Seek ==
    /\ Running("fseek")
    /\ \E h \in HandleArgs, sk \in SeekRequests, trap \in BOOLEAN :
        ss_fseek(h, sk[1], sk[2], trap)

Size ==
    /\ Running("file_size")
    /\ \E path \in PathArgs, dev \in MountArgs : ss_file_size(path, dev)

Delete ==
    /\ Running("delete_file")
    /\ \E path \in PathArgs, dev \in MountArgs, del \in {"ok", "absent", "error"} :
        ss_delete_file(path, dev, del)

Exists ==
    /\ Running("access")
    /\ \E path \in PathArgs, dev \in MountArgs : ss_access(path, dev)

CreateDir ==
    /\ Running("create_dir")
    /\ \E path \in {<<99>>, NULL_PATH} : ss_create_dir(path)

DeleteDir ==
    /\ Running("delete_dir")
    /\ \E path \in {<<99>>, NULL_PATH} : ss_delete_dir(path)

\* The caller takes the result of the call; a call that faulted never returns.
Return ==
    /\ last.op # "none"
    /\ last.fault = "none"
    /\ last' = NoCall
    /\ UNCHANGED <<nvs_initialized, store, file_handles, scen, steps>>

Next ==
    \/ Return
    \/ Open
    \/ Close
    \/ Read
    \/ Write
    \/ Seek
    \/ Size
    \/ Delete
    \/ Exists
    \/ CreateDir
    \/ DeleteDir

Spec == Init /\ [][Next]_vars

(* ------------------------------------------------------------------ *)
(* Claims                                                              *)
(* ------------------------------------------------------------------ *)

\* A step that makes a call of op.
CallStep(op) == last.op = "none" /\ last'.op = op

OpenSlots == {i \in Slots : file_handles[i].is_open}

\* C1: round trip. After open(P,"w"), write(B) with 1 <= len(B) <= capacity,
\* close with a successful store write, and open(P,"r") with a successful
\* allocation, the second open returns a handle, and read(len(B)) on it
\* returns len(B) items and exactly the bytes of B.
C1_RoundTrip ==
    /\ scen.stage = "reopened" => scen.h # NULL_HANDLE
    /\ (scen.stage = "read_back" /\ last.op = "fread") =>
          /\ last.ret = Len(scen.B)
          /\ last.data = scen.B

\* The round trip has run with a B that fills the buffer and mixes both bytes.
C1_Witness ==
    /\ scen.stage = "read_back"
    /\ last.op = "fread"
    /\ scen.B = <<0, ERASE, 0>>

\* C2: truncation persists. After open(P,"w") on a path with a stored entry of
\* length N > 0, close without a write, and size(P), the size is 0.
C2_TruncationPersists ==
    (scen.stage = "trunc_sized" /\ last.op = "file_size") => last.ret = 0

\* C3: handle exhaustion. With the store mounted and the allocation
\* succeeding, an open that is not a failing strict read succeeds if and only
\* if fewer than max_open_files handles are open; the handle it returns is a
\* slot that was not open; with max_open_files handles open the open fails;
\* and every handle that was open stays open with all its fields unchanged.
C3_HandleExhaustion ==
    [][CallStep("fopen") =>
        /\ (/\ last'.path # NULL_PATH /\ last'.mode # NULL_MODE
            /\ last'.mnt = 0 /\ last'.alloc # "failed"
            /\ ~open_not_found(last'.path, last'.mode))
           => (last'.ret # NULL_HANDLE
                 <=> Cardinality(OpenSlots) < CONFIG_SOFTSIM_MAX_OPEN_FILES)
        /\ last'.ret # NULL_HANDLE => last'.ret \in Slots \ OpenSlots
        /\ Cardinality(OpenSlots) = CONFIG_SOFTSIM_MAX_OPEN_FILES
           => last'.ret = NULL_HANDLE
        /\ \A i \in OpenSlots : file_handles'[i] = file_handles[i]
      ]_vars

\* An open was refused because every slot is open, the handles on two paths.
C3_Witness ==
    /\ last.op = "fopen"
    /\ last.path # NULL_PATH /\ last.mode # NULL_MODE
    /\ last.mnt = 0 /\ last.alloc = "none"
    /\ last.ret = NULL_HANDLE
    /\ \A i \in Slots : file_handles[i].is_open
    /\ \E i, j \in Slots : file_handles[i].nvs_id # file_handles[j].nvs_id

\* C4: capacity boundary. For an open handle at a position p <= capacity, a
\* write of capacity - p + 1 bytes returns 0 and changes nothing of the pool;
\* a write of capacity - p bytes returns the item count and leaves
\* position = size = capacity.
C4_CapacityBoundary ==
    [][(/\ CallStep("fwrite")
        /\ valid_handle(last'.h) /\ last'.ptr
        /\ file_handles[last'.h].position <= file_handles[last'.h].capacity) =>
        LET hd == file_handles[last'.h]
            n  == last'.isize * last'.icount
        IN  /\ n = hd.capacity - hd.position + 1 =>
                  /\ last'.ret = 0
                  /\ file_handles' = file_handles
            /\ n = hd.capacity - hd.position =>
                  /\ last'.ret = last'.icount
                  /\ last'.fault = "none"
                  /\ file_handles'[last'.h].position = hd.capacity
                  /\ file_handles'[last'.h].size = hd.capacity
      ]_vars

\* A write that ends exactly at the capacity was accepted in the middle of
\* the buffer.
C4_Witness ==
    /\ last.op = "fwrite"
    /\ last.ret = 2 /\ last.isize = 1 /\ last.icount = 2
    /\ valid_handle(last.h)
    /\ file_handles[last.h].position = CONFIG_SOFTSIM_MAX_FILE_SIZE
    /\ file_handles[last.h].size = CONFIG_SOFTSIM_MAX_FILE_SIZE

\* C5: idempotent delete. With the store mounted, a delete whose store call
\* reports success or "absent" returns success and leaves no entry for the
\* path (and the other entries as they were); a delete fails only when the
\* store reports another error; a second delete of the same path right after
\* a successful one succeeds again and leaves the store unchanged.
C5_IdempotentDelete ==
    [][(/\ CallStep("delete_file")
        /\ last'.path # NULL_PATH /\ last'.mnt = 0) =>
        LET id == path_to_nvs_id(last'.path)
        IN  /\ last'.nvs \in {0, -ENOENT} =>
                  /\ last'.ret = 0
                  /\ store'[id] = NoEntry
                  /\ \A other \in NvsIds \ {id} : store'[other] = store[other]
            /\ last'.ret # 0 => last'.nvs \notin {0, -ENOENT}
            /\ (scen'.stage = "deleted_twice" /\ last'.nvs \in {0, -ENOENT}) =>
                  /\ last'.ret = 0
                  /\ store' = store
      ]_vars

\* A path was deleted twice in a row, the second time with the store
\* reporting "absent", and both calls succeeded.
C5_Witness ==
    /\ scen.stage = "deleted_twice"
    /\ last.op = "delete_file"
    /\ last.nvs = -ENOENT
    /\ last.ret = 0

\* C6: sparse extension keeps the erase pattern. For a handle opened in any
\* mode, a write of n >= 1 bytes that is accepted at a position p greater than the
\* logical size s (a position only a seek can produce) and that stays inside
\* the buffer leaves the logical size at p + n and every buffer byte at an
\* index in [s, p) at the erase-pattern value.
C6_SparseKeepsErase ==
    [][(/\ CallStep("fwrite")
        /\ valid_handle(last'.h) /\ last'.ptr
        /\ file_handles[last'.h].position > file_handles[last'.h].size
        /\ last'.isize * last'.icount >= 1
        /\ last'.ret = last'.icount
        /\ last'.fault = "none"
        /\ last'.isize * last'.icount = Len(last'.data)) =>
        LET hd == file_handles[last'.h]
            n  == last'.isize * last'.icount
        IN  /\ file_handles'[last'.h].size = hd.position + n
            /\ \A i \in (hd.size + 1) .. hd.position :
                  file_handles'[last'.h].buffer[i] = ERASE
      ]_vars

\* C7: read result. For an open handle with position p and logical size s,
\* a non-null destination, every item size >= 1 and item count >= 0, read
\* copies exactly k = min(itemSize * itemCount, max(s - p, 0)) bytes
\* buffer[p .. p+k), advances the position by k, returns floor(k / itemSize),
\* and changes neither size, buffer nor the modified flag; when p >= s it
\* returns 0 items and leaves the position unchanged.
C7_ReadResult ==
    [][(/\ CallStep("fread")
        /\ valid_handle(last'.h) /\ last'.ptr
        /\ last'.isize >= 1) =>
        LET hd  == file_handles[last'.h]
            hd2 == file_handles'[last'.h]
            k   == Min(last'.isize * last'.icount, Max(hd.size - hd.position, 0))
        IN  /\ last'.fault = "none"
            /\ last'.data = SubSeq(hd.buffer, hd.position + 1, hd.position + k)
            /\ hd2.position = hd.position + k
            /\ last'.ret = k \div last'.isize
            /\ hd2.size = hd.size
            /\ hd2.buffer = hd.buffer
            /\ hd2.modified = hd.modified
            /\ hd.position >= hd.size =>
                  /\ last'.ret = 0
                  /\ hd2.position = hd.position
      ]_vars

\* C8: no handle leak on failed open. Whenever open returns null, the set of
\* slots marked open is the same as before the call, the handles that were
\* open are unchanged, no slot that is not open holds a buffer, and the store
\* is unchanged; so the number of slots a later open can claim is the same.
C8_NoLeakOnFailedOpen ==
    [][(CallStep("fopen") /\ last'.ret = NULL_HANDLE) =>
        /\ {i \in Slots : file_handles'[i].is_open} = OpenSlots
        /\ \A i \in OpenSlots : file_handles'[i] = file_handles[i]
        /\ \A i \in Slots \ OpenSlots : file_handles'[i].buffer = NULL_BUF
        /\ store' = store
      ]_vars

\* A strict-read open of an absent path failed after its buffer had been
\* allocated, while another handle was open.
C8_Witness ==
    /\ last.op = "fopen"
    /\ last.ret = NULL_HANDLE
    /\ last.alloc = "ok"
    /\ \E i \in Slots : file_handles[i].is_open
    /\ \E i \in Slots : ~file_handles[i].is_open /\ file_handles[i].nvs_id # 0

\* C9: close status reflects only handle validity. Close on an open handle
\* returns 0, frees the buffer and marks the slot free, also when the store
\* write of the flush fails, and leaves the other slots alone; close on a null
\* handle or on a slot that is not open returns -1 and changes neither the
\* pool nor the store.
C9_CloseStatus ==
    [][CallStep("fclose") =>
        IF valid_handle(last'.h)
        THEN /\ last'.ret = 0
             /\ file_handles'[last'.h].buffer = NULL_BUF
             /\ ~file_handles'[last'.h].is_open
             /\ \A i \in Slots \ {last'.h} : file_handles'[i] = file_handles[i]
             /\ last'.nvs < 0 => store' = store
        ELSE /\ last'.ret = -1
             /\ file_handles' = file_handles
             /\ store' = store
      ]_vars

\* A close whose flush failed in the store returned success and freed the
\* slot.
C9_Witness ==
    /\ last.op = "fclose"
    /\ last.ret = 0
    /\ last.nvs = -EIO
    /\ last.h \in Slots
    /\ ~file_handles[last.h].is_open
    /\ file_handles[last.h].buffer = NULL_BUF

\* C10: strict-read open. For a mode containing 'r' and neither 'w' nor '+',
\* with the store mounted, a free slot and a successful allocation, open(P)
\* returns null and leaves the slot closed without a buffer when the store has
\* no entry for P's identifier; when it has one, open returns the slot with
\* the logical size equal to the stored length, position 0, the modified flag
\* false and buffer[0 .. size) equal to the stored bytes.
C10_StrictReadOpen ==
    [][(/\ CallStep("fopen")
        /\ last'.path # NULL_PATH
        /\ strchr(last'.mode, "r")
        /\ ~strchr(last'.mode, "w") /\ ~strchr(last'.mode, "+")
        /\ last'.alloc = "ok") =>
        LET id   == path_to_nvs_id(last'.path)
            slot == get_free_handle
            hd2  == file_handles'[slot]
        IN  IF store[id] = NoEntry
            THEN /\ last'.ret = NULL_HANDLE
                 /\ ~hd2.is_open
                 /\ hd2.buffer = NULL_BUF
            ELSE /\ last'.ret = slot
                 /\ hd2.is_open
                 /\ hd2.size = Len(store[id])
                 /\ hd2.position = 0
                 /\ ~hd2.modified
                 /\ SubSeq(hd2.buffer, 1, hd2.size) = store[id]
      ]_vars

\* A read-only open loaded a stored file that fills the buffer.
C10_Witness ==
    /\ last.op = "fopen"
    /\ last.mode = <<"r">>
    /\ last.ret # NULL_HANDLE
    /\ file_handles[last.ret].size = CONFIG_SOFTSIM_MAX_FILE_SIZE
    /\ file_handles[last.ret].position = 0

\* C11: size and exists agree on presence. With the store mounted, size(P)
\* returns the stored entry's length when an entry exists for P's identifier
\* and -1 when none exists, exists(P) succeeds exactly when an entry exists,
\* and in the store state of either call exists(P) succeeds if and only if
\* size(P) >= 0.
C11_SizeExistsAgree ==
    [][(/\ CallStep("file_size") \/ CallStep("access")
        /\ last'.path # NULL_PATH /\ last'.mnt = 0) =>
        LET id == path_to_nvs_id(last'.path)
        IN  /\ last'.op = "file_size" =>
                  /\ last'.ret = IF store[id] = NoEntry THEN -1 ELSE Len(store[id])
                  /\ last'.ret >= 0 <=> access_result(nvs_read(id)) = 0
            /\ last'.op = "access" =>
                  /\ last'.ret = 0 <=> store[id] # NoEntry
                  /\ last'.ret = 0 <=> size_result(nvs_read(id)) >= 0
            /\ store' = store
      ]_vars

\* exists succeeded on a path whose identifier holds a one-byte entry, with
\* another file open.
C11_Witness ==
    /\ last.op = "access"
    /\ last.ret = 0
    /\ last.path # NULL_PATH
    /\ Len(store[path_to_nvs_id(last.path)]) = 1
    /\ \E i \in Slots : file_handles[i].is_open

\* A step that makes a call of an operation that needs the store, with the
\* arguments that let it reach ensure_nvs_init.
StoreCallStep ==
    /\ last.op = "none"
    /\ last'.op \in StoreOps
    /\ last'.path # NULL_PATH
    /\ last'.op = "fopen" => last'.mode # NULL_MODE

\* Whether the recorded call returned its failure value.
Failed(call) ==
    IF call.op = "fopen" THEN call.ret = NULL_HANDLE ELSE call.ret = -1

\* C12: lazy single mount. The mounted flag never goes from true to false; a
\* call of open/size/exists/delete made while the flag is false attempts the
\* mount, and the flag becomes true exactly in a call whose mount succeeds; no
\* call made while the flag is true calls mount, and no other operation ever
\* does: so the mount succeeds at most once.
C12_LazySingleMount ==
    [][/\ nvs_initialized => nvs_initialized'
       /\ (last.op = "none" /\ last'.op # "none") =>
             /\ last'.mount # "none" => ~nvs_initialized /\ last'.op \in StoreOps
             /\ last'.mount = "ok" <=> ~nvs_initialized /\ nvs_initialized'
       /\ (StoreCallStep /\ ~nvs_initialized) => last'.mount # "none"
      ]_vars

\* A size query on a mounted store went through without calling mount.
C12_Witness ==
    /\ nvs_initialized
    /\ last.op = "file_size"
    /\ last.path # NULL_PATH
    /\ last.mount = "none"
    /\ last.ret >= 0

\* C13 as stated: a call whose mount fails returns its failure value without
\* claiming a slot or touching the store, and the open/size/exists/delete call
\* made after a call that failed on the mount fails too.
C13_MountFailureBlocks ==
    [][StoreCallStep =>
        /\ last'.mnt # 0 =>
              /\ Failed(last')
              /\ file_handles' = file_handles
              /\ store' = store
        /\ scen.stage = "mount_failed" => Failed(last')
      ]_vars

\* C13 amended: a call of open/size/exists/delete fails on the mount exactly
\* when its own mount attempt fails (device not ready or mount error); it then
\* returns its failure value, claims no slot, leaves the store alone and
\* leaves the mounted flag false; every such call made while the flag is
\* false attempts the mount again, whatever happened before, and a successful
\* attempt sets the flag.
C13_MountFailureFailsCall ==
    [][StoreCallStep =>
        /\ last'.mount \in {"not_ready", "failed"} <=> last'.mnt # 0
        /\ last'.mnt # 0 =>
              /\ Failed(last')
              /\ file_handles' = file_handles
              /\ store' = store
              /\ ~nvs_initialized'
        /\ ~nvs_initialized => last'.mount # "none"
        /\ last'.mount = "ok" => nvs_initialized' /\ last'.mnt = 0
      ]_vars

\* The open made right after a call that failed on the mount mounted the
\* store and returned a handle.
C13_Witness ==
    /\ scen.stage = "mount_retried"
    /\ last.op = "fopen"
    /\ last.mount = "ok"
    /\ last.ret # NULL_HANDLE

\* C14: over-long path is rejected atomically. An open, size, exists or
\* delete called with a path whose length is not below the maximum path
\* length returns its failure value, claims no handle slot and leaves the
\* store alone.
C14_OverLongPathRejected ==
    [][(StoreCallStep /\ Len(last'.path) >= SS_STORAGE_PATH_MAX) =>
        /\ Failed(last')
        /\ \A i \in Slots : file_handles'[i].is_open = file_handles[i].is_open
        /\ store' = store
      ]_vars

(* ------------------------------------------------------------------ *)
(* The identifier function on its own                                  *)
(* ------------------------------------------------------------------ *)

\* The longest path the identifier function is applied to.
MaxPathLen == 5

\* The bytes the paths are made of: a low one, a letter and the highest one.
HashBytes == {1, 97, 255}

HashPaths == UNION {[1 .. n -> HashBytes] : n \in 0 .. MaxPathLen}

\* A session that does nothing but pick a path.
HashInit ==
    /\ nvs_initialized = FALSE
    /\ store = [id \in NvsIds |-> NoEntry]
    /\ file_handles = [i \in Slots |-> ZeroHandle]
    /\ scen = NoScen
    /\ steps = 0
    /\ \E path \in HashPaths : last = [NoCall EXCEPT !.path = path]

\* path_to_nvs_id is applied to the path.
HashApply ==
    /\ last.op = "none"
    /\ last' = [last EXCEPT !.op = "path_to_nvs_id",
                            !.ret = path_to_nvs_id(last.path)]
    /\ UNCHANGED <<nvs_initialized, store, file_handles, scen, steps>>

HashNext == HashApply

HashSpec == HashInit /\ [][HashNext]_vars

\* h = (h * 33 + byte) mod 2^32 on a hash written as four base-256 digits,
\* lowest first.
RefStep(d, b) ==
    LET t1 == (d[1] * 33) + b
        t2 == (d[2] * 33) + (t1 \div 256)
        t3 == (d[3] * 33) + (t2 \div 256)
        t4 == (d[4] * 33) + (t3 \div 256)
    IN  <<t1 % 256, t2 % 256, t3 % 256, t4 % 256>>

RECURSIVE RefHash(_, _, _)
RefHash(d, path, i) ==
    IF i > Len(path) THEN d ELSE RefHash(RefStep(d, path[i]), path, i + 1)

\* The four-digit hash modulo m.
RefMod(d, m) ==
    ((((((d[4] % m) * 256 + d[3]) % m) * 256 + d[2]) % m) * 256 + d[1]) % m

\* BASE + (h(P) mod SPAN) with the seed 5381 = 21 * 256 + 5.
RefId(path) ==
    NVS_ID_BASE + RefMod(RefHash(<<5, 21, 0, 0>>, path, 1), NVS_ID_MAX - NVS_ID_BASE)

\* C15: the identifier is a pure function in range. For every path P,
\* path_to_nvs_id(P) equals BASE + (h(P) mod SPAN), h starting at 5381 and
\* taking h = (h * 33 + byte) mod 2^32 for each byte in order; the result
\* lies in [BASE, BASE + SPAN), inside 0x1000 .. 0x1FFF.
C15_IdentifierInRange ==
    last.op = "path_to_nvs_id" =>
        /\ last.ret = RefId(last.path)
        /\ last.ret >= NVS_ID_BASE
        /\ last.ret < NVS_ID_BASE + (NVS_ID_MAX - NVS_ID_BASE)
        /\ last.ret \in 4096 .. 8191

\* The identifier of a longest path with the highest byte in it, whose hash
\* has wrapped around 2^32, has been computed.
C15_Witness ==
    /\ last.op = "path_to_nvs_id"
    /\ Len(last.path) = MaxPathLen
    /\ \E i \in DOMAIN last.path : last.path[i] = 255
    /\ \A i \in DOMAIN last.path : last.path[i] >= 97

\* C16: close flush content. When close is called on an open handle that is
\* marked modified and has logical size s > 0, and the store write succeeds,
\* the entry under the handle's identifier afterwards is exactly
\* buffer[0 .. s), of length s, and the other entries are as before; when the
\* handle is not marked modified, close leaves the store as it was.
C16_CloseFlushContent ==
    [][(CallStep("fclose") /\ valid_handle(last'.h)) =>
        LET hd == file_handles[last'.h]
        IN  /\ (hd.modified /\ hd.size > 0 /\ last'.nvs >= 0) =>
                  /\ Len(store'[hd.nvs_id]) = hd.size
                  /\ \A i \in 1 .. hd.size : store'[hd.nvs_id][i] = hd.buffer[i]
                  /\ \A other \in NvsIds \ {hd.nvs_id} : store'[other] = store[other]
            /\ ~hd.modified => store' = store
      ]_vars

\* A close has flushed two bytes, shorter than the buffer, the second of them
\* the erase pattern, under the identifier of "c".
C16_Witness ==
    /\ last.op = "fclose"
    /\ last.nvs = 2
    /\ last.data = <<0, ERASE>>
    /\ last.h \in Slots
    /\ file_handles[last.h].nvs_id = path_to_nvs_id(<<99>>)
    /\ store[path_to_nvs_id(<<99>>)] = <<0, ERASE>>

\* C17: seek. For an open handle, seek computes offset (from-start),
\* position + offset (from-current) or size + offset (from-end); if the result
\* is negative or whence is none of the three values, seek returns -1 and the
\* position is unchanged; otherwise it returns 0 and the position is exactly
\* the computed value, with no clamping against size or capacity. In every
\* case size, buffer and the modified flag are unchanged.
C17_Seek ==
    [][(CallStep("fseek") /\ valid_handle(last'.h)) =>
        LET hd  == file_handles[last'.h]
            hd2 == file_handles'[last'.h]
            t   == seek_target(hd, last'.off, last'.whence)
        IN  /\ last'.fault = "none"
            /\ IF last'.whence \notin {SEEK_SET, SEEK_CUR, SEEK_END} \/ t < 0
               THEN last'.ret = -1 /\ hd2.position = hd.position
               ELSE last'.ret = 0 /\ hd2.position = t
            /\ hd2.size = hd.size
            /\ hd2.buffer = hd.buffer
            /\ hd2.modified = hd.modified
      ]_vars

\* Every open handle has a logical size within its capacity and a buffer of
\* exactly capacity bytes.
HandleInv ==
    \A i \in Slots :
        file_handles[i].is_open =>
            /\ file_handles[i].size <= file_handles[i].capacity
            /\ file_handles[i].buffer # NULL_BUF
            /\ Len(file_handles[i].buffer) = file_handles[i].capacity
            /\ file_handles[i].capacity = CONFIG_SOFTSIM_MAX_FILE_SIZE

\* C18: handle invariants. Starting from a store whose entries fit the buffer,
\* in every reachable state every open handle has logical size <= capacity
\* and a non-null buffer of exactly capacity bytes; an open returns a handle
\* with position <= size, and every call other than a seek keeps
\* position <= size on every handle that had it and stays open, so only a
\* seek can place the position past the size.
C18_HandleInvariants ==
    [][/\ HandleInv'
       /\ (CallStep("fopen") /\ last'.ret # NULL_HANDLE) =>
             file_handles'[last'.ret].position <= file_handles'[last'.ret].size
       /\ (last.op = "none" /\ last'.op \notin {"none", "fseek"}) =>
             \A i \in Slots :
                 (/\ file_handles[i].is_open /\ file_handles'[i].is_open
                  /\ ~(last'.op = "fopen" /\ last'.ret = i)
                  /\ file_handles[i].position <= file_handles[i].size)
                 => file_handles'[i].position <= file_handles'[i].size
      ]_vars

\* With every slot open, a write on a handle that was never sought has left
\* its position at its size, one byte into the buffer.
C18_Witness ==
    /\ last.op = "fwrite"
    /\ last.fault = "none"
    /\ last.ret = 1
    /\ \A i \in Slots : file_handles[i].is_open
    /\ file_handles[last.h].position = 1
    /\ file_handles[last.h].size = 1
    /\ HandleInv

\* C19: write-back only at close. The store changes only in a close, of a
\* handle marked modified, and in a delete; open, read, write, seek, size,
\* exists, create-dir and delete-dir leave every store entry as it was, and
\* create-dir and delete-dir return 0 for every path, a null one included,
\* and change neither the store nor the handle pool.
C19_WriteBackOnlyAtClose ==
    [][(last.op = "none" /\ last'.op # "none") =>
        /\ last'.op \notin {"fclose", "delete_file"} => store' = store
        /\ (last'.op = "fclose" /\ store' # store) =>
              /\ valid_handle(last'.h)
              /\ file_handles[last'.h].modified
        /\ last'.op \in {"create_dir", "delete_dir"} =>
              /\ last'.ret = 0
              /\ file_handles' = file_handles
      ]_vars

\* create-dir on a null path returned 0 while a handle held written bytes
\* that the store does not have.
C19_Witness ==
    /\ last.op = "create_dir"
    /\ last.path = NULL_PATH
    /\ last.ret = 0
    /\ \E i \in Slots :
          /\ file_handles[i].is_open
          /\ file_handles[i].modified
          /\ file_handles[i].size > 0
          /\ store[file_handles[i].nvs_id] = NoEntry

\* C20: write capacity check under machine arithmetic. For an open handle, a
\* non-null source and every item size, item count and position, if the
\* position plus the mathematical product itemSize * itemCount exceeds the
\* capacity then write returns 0 and changes neither buffer, position, size
\* nor the modified flag, also when the product or the sum wraps around the
\* word; otherwise it returns itemCount, having copied exactly
\* itemSize * itemCount bytes, all inside the buffer.
C20_WriteCapacityCheck ==
    [][(/\ CallStep("fwrite")
        /\ valid_handle(last'.h) /\ last'.ptr) =>
        LET hd == file_handles[last'.h]
            n  == last'.isize * last'.icount
        IN  IF hd.position + n > hd.capacity
            THEN /\ last'.ret = 0
                 /\ last'.fault = "none"
                 /\ file_handles'[last'.h] = hd
            ELSE /\ last'.ret = last'.icount
                 /\ last'.fault = "none"
                 /\ Len(last'.data) = n
                 /\ hd.position + n <= Len(hd.buffer)
      ]_vars

(* ------------------------------------------------------------------ *)
(* Two handles on one identifier                                       *)
(* ------------------------------------------------------------------ *)

\* The number of calls of a session that works on one identifier: two
\* opens, a write and a read on each handle and two closes fit in it.
PairCalls == 6

\* The two paths that share an identifier.
PairPaths == {<<97, 97>>, <<98, 64>>}

\* A session that starts like any other, with PairCalls calls to make.
PairInit ==
    /\ nvs_initialized = FALSE
    /\ store \in ProvisionedStores
    /\ store[path_to_nvs_id(<<99>>)] = NoEntry
    /\ file_handles = [i \in Slots |-> ZeroHandle]
    /\ last = NoCall
    /\ scen = NoScen
    /\ steps = MaxSteps - PairCalls

\* Opens of the two paths, truncating or updating, with the store mounting
\* and the allocation succeeding.
PairOpen ==
    /\ Running("fopen")
    /\ \E path \in PairPaths, mode \in {<<"w">>, <<"r", "+">>} :
        ss_fopen(path, mode, "ok", TRUE)

\* Writes of one or two bytes, of either value.
PairWrite ==
    /\ Running("fwrite")
    /\ \E h \in Slots, n \in {1, 2} :
        \E data \in WriteData(h, TRUE, <<1, n>>) : ss_fwrite(h, TRUE, 1, n, data)

\* Reads of up to a whole buffer.
PairRead ==
    /\ Running("fread")
    /\ \E h \in Slots : ss_fread(h, TRUE, 1, CONFIG_SOFTSIM_MAX_FILE_SIZE, FALSE)

\* Rewinds to the start of the file.
PairSeek ==
    /\ Running("fseek")
    /\ \E h \in Slots : ss_fseek(h, 0, SEEK_SET, FALSE)

PairClose ==
    /\ Running("fclose")
    /\ \E h \in Slots, wr \in WriteOutcomes : ss_fclose(h, wr)

PairNext ==
    \/ Return
    \/ PairOpen
    \/ PairWrite
    \/ PairRead
    \/ PairSeek
    \/ PairClose

PairSpec == PairInit /\ [][PairNext]_vars

\* C21: last close wins. With handles open at the same time on one
\* identifier (the same path or two colliding paths), a call on one handle
\* leaves every other open handle as it was; an open loads from the store and
\* a read returns bytes of the handle's own buffer; a close always returns 0,
\* and when its handle is marked modified with size > 0 it writes the store:
\* if the write succeeds the entry becomes that handle's buffer[0 .. size),
\* whatever the other handle wrote or flushed before; if the write fails, or
\* the handle has nothing to flush, the store stays as it was. So
\* after both are closed the entry is the content flushed by the close that
\* came last, and the other handle's writes are lost without an error.
C21_LastCloseWins ==
    [][(last.op = "none" /\ last'.op # "none") =>
        /\ \A i \in OpenSlots \ {last'.h} : file_handles'[i] = file_handles[i]
        /\ (last'.op = "fopen" /\ last'.ret # NULL_HANDLE) =>
              LET id  == path_to_nvs_id(last'.path)
                  hd2 == file_handles'[last'.ret]
              IN  /\ last'.ret \notin OpenSlots
                  /\ IF strchr(last'.mode, "w") \/ store[id] = NoEntry
                     THEN hd2.size = 0
                     ELSE /\ hd2.size = Len(store[id])
                          /\ SubSeq(hd2.buffer, 1, hd2.size) = store[id]
        /\ (last'.op = "fread" /\ valid_handle(last'.h)) =>
              LET hd == file_handles[last'.h]
              IN  last'.data = SubSeq(hd.buffer, hd.position + 1,
                                      hd.position + last'.ret)
        /\ (last'.op = "fclose" /\ valid_handle(last'.h)) =>
              LET hd == file_handles[last'.h]
              IN  /\ last'.ret = 0
                  /\ IF hd.modified /\ hd.size > 0
                     THEN \/ /\ last'.nvs = hd.size
                             /\ store'[hd.nvs_id] = SubSeq(hd.buffer, 1, hd.size)
                             /\ \A other \in NvsIds \ {hd.nvs_id} :
                                   store'[other] = store[other]
                          \/ /\ last'.nvs < 0
                             /\ store' = store
                     ELSE store' = store
      ]_vars

\* Two handles on the shared identifier, both written to, have been closed:
\* the one closed last flushed one byte, the other had two bytes, and the
\* entry is the one byte.
C21_Witness ==
    /\ last.op = "fclose"
    /\ last.ret = 0
    /\ last.nvs = 1
    /\ \A i \in Slots :
          /\ ~file_handles[i].is_open
          /\ file_handles[i].nvs_id = path_to_nvs_id(<<97, 97>>)
          /\ file_handles[i].modified
    /\ file_handles[last.h].size = 1
    /\ \E i \in Slots : file_handles[i].size = 2
    /\ store[path_to_nvs_id(<<97, 97>>)] = last.data
    /\ last.data = <<ERASE>>

\* C22: read never faults. For every open handle, a non-null destination and
\* every item size >= 0 and item count >= 0, an item size of 0 included, read
\* completes without an arithmetic fault and returns at most itemCount items;
\* read on a null or not-open handle, or with a null destination, returns 0
\* and changes no state.
C22_ReadNeverFaults ==
    [][CallStep("fread") =>
        IF valid_handle(last'.h) /\ last'.ptr
        THEN /\ last'.fault = "none"
             /\ last'.ret <= last'.icount
        ELSE /\ last'.fault = "none"
             /\ last'.ret = 0
             /\ file_handles' = file_handles
             /\ store' = store
             /\ nvs_initialized' = nvs_initialized
      ]_vars

====
